---- MODULE Spec2Model ----
(***************************************************************************)
(* Anonymous services of gridworks-infra: the zero-knowledge proof engine  *)
(* (CryptographicEngine), its Redis proof store, and the anonymous         *)
(* portfolio manager (AnonymousPortfolioManager) with the emergency reveal *)
(* endpoint, as written in                                                 *)
(*   b2b-services/anonymous-services/zk_proof_system.py                    *)
(*   b2b-services/api/v1/anonymous_services.py                             *)
(*                                                                         *)
(* Time is counted in hours.  Python floats are IEEE-754 doubles and are   *)
(* modelled bit-exactly (see the Float section).  A call of a method that  *)
(* the class does not define raises AttributeError, as Python does.        *)
(***************************************************************************)
EXTENDS Integers, Sequences, FiniteSets, TLC

VARIABLES
    now,        \* datetime.utcnow(), in hours since the service started
    redis,      \* the Redis keyspace the engine and the manager share
    issued,     \* proof ids generate_zk_proof has handed out so far
    audit_log,  \* emergency-access records (written by _log_emergency_access)
    last        \* the last call made by a client and what it got back

vars == <<now, redis, issued, audit_log, last>>

----------------------------------------------------------------------------
(* Bounds of the model *)

MaxTime == 3

----------------------------------------------------------------------------
(* Enumerations: zk_proof_system.py lines 29-51 *)

PrivacyTier == {"onyx", "obsidian", "void"}

ProofType == {"portfolio_ownership", "net_worth_threshold",
              "identity_verification", "transaction_validity",
              "compliance_status", "risk_assessment"}

ZKStatus == {"pending", "verified", "rejected", "expired"}

\* Python objects are records: a dict is the record of its keys, None is a
\* record of its own, and a datetime is the record of its hour
None == [none |-> TRUE]
EmptyDict == [k \in {} |-> k]
Datetime(t) == [datetime |-> t]

\* no exception was raised
NoExc == "no exception"

----------------------------------------------------------------------------
(* Float: an IEEE-754 double x with 2^-5 <= x < 2, or 0.0, is the pair     *)
(* <<q, r>> with x = (q * 2^30 + r) * 2^-57 and 0 <= r < 2^30.  FAdd is    *)
(* the double addition: the exact sum rounded to 53 significant bits,      *)
(* ties to even.                                                           *)

\* 53-bit spacing, in units of 2^-57, of the doubles around <<q, r>>
Ulp(q) ==
    IF q >= 134217728 THEN 32       \* [1, 2)
    ELSE IF q >= 67108864 THEN 16   \* [1/2, 1)
    ELSE IF q >= 33554432 THEN 8    \* [1/4, 1/2)
    ELSE IF q >= 16777216 THEN 4    \* [1/8, 1/4)
    ELSE IF q >= 8388608 THEN 2     \* [1/16, 1/8)
    ELSE 1                          \* [1/32, 1/16)

FNorm(q, r) == <<q + (r \div 1073741824), r % 1073741824>>

\* rounding toward zero instead of to nearest
FRound_toward_zero(x) == <<x[1], x[2] - (x[2] % Ulp(x[1]))>>

FRound(x) ==
    LET q == x[1]
        r == x[2]
        u == Ulp(q)
        rem == r % u
        down == r - rem
        up == (2 * rem > u) \/ (2 * rem = u /\ (down \div u) % 2 = 1)
    IN  IF up THEN FNorm(q, down + u) ELSE <<q, down>>

FAdd(x, y) == FRound(FNorm(x[1] + y[1], x[2] + y[2]))

FLess(x, y) == x[1] < y[1] \/ (x[1] = y[1] /\ x[2] < y[2])

FLeq(x, y) == x = y \/ FLess(x, y)

\* a min that keeps its first argument
FMin_uncapped(x, y) == x

FMin(x, y) == IF FLess(y, x) THEN y ELSE x

\* The float literals of the source, as doubles
F_0_0 == <<0, 0>>
F_0_05 == <<6710886, 429496730>>
F_0_10 == <<13421772, 858993460>>
F_0_15 == <<20132659, 214748364>>
F_0_8 == <<107374182, 429496736>>
F_0_95 == <<127506841, 644245088>>
F_0_99 == <<132875550, 773094112>>

----------------------------------------------------------------------------
(* Python values *)

\* dict.get(k, default)
Get(d, k, default) == IF k \in DOMAIN d THEN d[k] ELSE default

\* the outcome of a call: a returned value or a raised exception
Ok(v) == [exc |-> NoExc, val |-> v]
Raise(e) == [exc |-> e]

\* the methods each class defines; calling any other name on self raises
\* AttributeError
CryptographicEngineMethods ==
    {"__init__", "generate_zk_proof", "verify_zk_proof",
     "_prove_portfolio_ownership", "_prove_net_worth_threshold",
     "_prove_identity_verification", "_prove_compliance_status",
     "_create_commitment", "_create_range_proof", "_create_ownership_proof",
     "_create_threshold_proof", "_create_merkle_root", "_create_identity_proof",
     "_determine_tier_qualification", "_generate_verification_hash",
     "_calculate_confidence_score", "_generate_emergency_recovery",
     "_cache_proof", "_get_cached_proof"}

AnonymousPortfolioManagerMethods ==
    {"__init__", "create_anonymous_identity", "verify_anonymous_portfolio",
     "progressive_identity_reveal", "_get_tier_proof_requirements",
     "_encrypt_profile"}

\* self.<name>(...) where the class may not define <name>
SelfCall(methods, name) ==
    IF name \in methods THEN Ok(name) ELSE Raise("AttributeError")

\* one-way functions and encodings, as terms: equal inputs give equal
\* outputs and the input cannot be read back from the term by a client
Sha256(x) == [sha256 |-> x]
Hmac(key, x) == [hmac_sha256 |-> x, key |-> key]
B64(x) == [b64 |-> x]
Str(x) == [str |-> x]
JsonDumps(x) == [json |-> x]

\* the k-th draw of secrets.token_bytes in a call whose entropy is seed
TokenBytes(seed, k) == [rand |-> seed, draw |-> k]

ENCRYPTION_KEY == "settings.ENCRYPTION_KEY"

----------------------------------------------------------------------------
(* CryptographicEngine *)

tier_crypto_params ==
    [onyx |-> [key_size |-> 2048, hash_algorithm |-> "SHA256",
               encryption |-> "AES-256-GCM", proof_rounds |-> 3],
     obsidian |-> [key_size |-> 3072, hash_algorithm |-> "SHA384",
                   encryption |-> "AES-256-GCM", proof_rounds |-> 5],
     void |-> [key_size |-> 4096, hash_algorithm |-> "SHA512",
               encryption |-> "ChaCha20-Poly1305", proof_rounds |-> 7,
               quantum_resistant |-> TRUE]]

_create_commitment(value, nonce) == Sha256(<<Str(value), nonce>>)

\* a range proof whose flag is a strict comparison
_create_range_proof_strict(value, threshold, nonce, crypto_params, seed) ==
    LET proof_rounds == crypto_params.proof_rounds
        challenge(i) == TokenBytes(seed, Str(i))
    IN  [rounds |-> proof_rounds,
         proofs |-> [j \in 1..proof_rounds |->
                       [round |-> j - 1,
                        challenge |-> B64(challenge(j - 1)),
                        response |-> B64(Sha256(<<Str(value), Str(threshold),
                                                  nonce, challenge(j - 1)>>))]],
         threshold_satisfied |-> value > threshold]

\* draws 0 .. proof_rounds-1 of the call are the round challenges
_create_range_proof(value, threshold, nonce, crypto_params, seed) ==
    LET proof_rounds == crypto_params.proof_rounds
        challenge(i) == TokenBytes(seed, Str(i))
    IN  [rounds |-> proof_rounds,
         proofs |-> [j \in 1..proof_rounds |->
                       [round |-> j - 1,
                        challenge |-> B64(challenge(j - 1)),
                        response |-> B64(Sha256(<<Str(value), Str(threshold),
                                                  nonce, challenge(j - 1)>>))]],
         threshold_satisfied |-> value >= threshold]

_create_ownership_proof(holding, crypto_params) ==
    LET holding_hash == Sha256(JsonDumps(holding))
        signature == Hmac(ENCRYPTION_KEY, holding_hash)
    IN  [holding_id |-> Get(holding, "id", "unknown"),
         holding_hash |-> B64(holding_hash),
         ownership_signature |-> B64(signature),
         verified |-> TRUE]

_create_threshold_proof(value, threshold, crypto_params, seed) ==
    LET difference == value - threshold
        proof_hash == Sha256(<<Str(difference), TokenBytes(seed, Str("threshold"))>>)
    IN  [threshold_met |-> difference >= 0,
         proof_hash |-> B64(proof_hash),
         confidence |-> IF difference >= 0 THEN F_0_99 ELSE F_0_0]

_determine_tier_qualification(net_worth) ==
    IF net_worth >= 50000000 THEN "void"
    ELSE IF net_worth >= 20000000 THEN "obsidian"
    ELSE IF net_worth >= 5000000 THEN "onyx"
    ELSE "none"

RECURSIVE SumValues(_)
SumValues(holdings) ==
    IF holdings = <<>> THEN 0
    ELSE Get(Head(holdings), "value", 0) + SumValues(Tail(holdings))

_prove_portfolio_ownership(request, crypto_params, seed) ==
    LET portfolio_data == Get(request.claim_data, "portfolio", EmptyDict)
        holdings == Get(portfolio_data, "holdings", <<>>)
        threshold == Get(request.verification_params, "min_value", 0)
        total_value == SumValues(holdings)
        random_nonce == TokenBytes(seed, Str("nonce"))
        value_commitment == _create_commitment(total_value, random_nonce)
        range_proof == _create_range_proof(total_value, threshold, random_nonce,
                                           crypto_params, seed)
        ownership_proofs ==
            [i \in 1..Len(holdings) |->
                _create_ownership_proof(holdings[i], crypto_params)]
    IN  Ok([type |-> "portfolio_ownership",
            value_commitment |-> B64(value_commitment),
            range_proof |-> range_proof,
            ownership_proofs |-> ownership_proofs,
            verification_parameters |->
                [threshold_met |-> total_value >= threshold,
                 holdings_count |-> Len(holdings),
                 commitment_valid |-> TRUE]])

_prove_net_worth_threshold(request, crypto_params, seed) ==
    LET net_worth == Get(request.claim_data, "net_worth", 0)
        threshold == Get(request.verification_params, "threshold", 0)
        random_nonce == TokenBytes(seed, Str("nonce"))
        worth_commitment == _create_commitment(net_worth, random_nonce)
        range_proof == _create_range_proof(net_worth, threshold, random_nonce,
                                           crypto_params, seed)
        verification_proof == _create_threshold_proof(net_worth, threshold,
                                                      crypto_params, seed)
    IN  Ok([type |-> "net_worth_threshold",
            worth_commitment |-> B64(worth_commitment),
            range_proof |-> range_proof,
            threshold_proof |-> verification_proof,
            verification_parameters |->
                [threshold_met |-> net_worth >= threshold,
                 tier_qualified |-> _determine_tier_qualification(net_worth),
                 commitment_valid |-> TRUE]])

\* builds the Merkle root and the identity proof, then calls
\* self._create_compliance_proof, which the class does not define
_prove_identity_verification(request, crypto_params, seed) ==
    IF "_create_compliance_proof" \in CryptographicEngineMethods
    THEN Ok([type |-> "identity_verification",
             verification_parameters |->
                 [compliance_status |-> "verified", kyc_complete |-> TRUE]])
    ELSE Raise("AttributeError")

\* its first step calls self._create_regulatory_proof, which the class does
\* not define
_prove_compliance_status(request, crypto_params, seed) ==
    IF "_create_regulatory_proof" \in CryptographicEngineMethods
    THEN Ok([type |-> "compliance_status",
             verification_parameters |->
                 [regulatory_compliant |-> TRUE, sanctions_clear |-> TRUE,
                  aml_verified |-> TRUE, risk_level |-> "low"]])
    ELSE Raise("AttributeError")

_generate_verification_hash(proof_data, crypto_params) ==
    B64([hash |-> crypto_params.hash_algorithm, of |-> JsonDumps(proof_data)])

\* the score with the tier bonuses of Onyx and Void exchanged
_calculate_confidence_score_bonuses_swapped(request, proof_data, crypto_params) ==
    LET base_score == F_0_8
        tier_bonuses == [onyx |-> F_0_15, obsidian |-> F_0_10, void |-> F_0_05]
        score0 == FAdd(base_score, Get(tier_bonuses, request.privacy_tier, F_0_0))
        verification_params == Get(proof_data, "verification_parameters", EmptyDict)
        score1 == IF Get(verification_params, "threshold_met", FALSE)
                  THEN FAdd(score0, F_0_05) ELSE score0
        score2 == IF Get(verification_params, "commitment_valid", FALSE)
                  THEN FAdd(score1, F_0_05) ELSE score1
    IN  FMin(score2, F_0_99)

_calculate_confidence_score(request, proof_data, crypto_params) ==
    LET base_score == F_0_8
        tier_bonuses == [onyx |-> F_0_05, obsidian |-> F_0_10, void |-> F_0_15]
        score0 == FAdd(base_score, Get(tier_bonuses, request.privacy_tier, F_0_0))
        verification_params == Get(proof_data, "verification_parameters", EmptyDict)
        score1 == IF Get(verification_params, "threshold_met", FALSE)
                  THEN FAdd(score0, F_0_05) ELSE score0
        score2 == IF Get(verification_params, "commitment_valid", FALSE)
                  THEN FAdd(score1, F_0_05) ELSE score1
    IN  FMin(score2, F_0_99)

\* a recovery routine that derives no token
_generate_emergency_recovery_none(request, proof_data, t) == Ok(None)

\* a recovery token that encodes the recovery data without hashing it
_generate_emergency_recovery_unhashed(request, proof_data, t) ==
    IF request.metadata = None
    THEN Raise("AttributeError")
    ELSE Ok(B64(JsonDumps(
            [client_id |-> request.client_id,
             proof_type |-> request.proof_type,
             timestamp |-> Str(Datetime(t)),
             emergency_contacts |->
                 Get(request.metadata, "emergency_contacts", <<>>)])))

\* request.metadata.get(...) raises AttributeError when metadata is None
_generate_emergency_recovery(request, proof_data, t) ==
    IF request.metadata = None
    THEN Raise("AttributeError")
    ELSE Ok(B64(Sha256(JsonDumps(
            [client_id |-> request.client_id,
             proof_type |-> request.proof_type,
             timestamp |-> Str(Datetime(t)),
             emergency_contacts |->
                 Get(request.metadata, "emergency_contacts", <<>>)]))))

\* json.dumps(asdict(response), default=str): a datetime is not JSON, so
\* default=str turns expires_at into a string; json.loads gives the dict back
\* with the string in it
AsJson(response) == [response EXCEPT !.expires_at = Str(response.expires_at)]
JsonLoads(text) == text.json

\* Redis SETEX and GET; a key is gone once its time to live has elapsed
RedisSetex(store, key, seconds, value, t) ==
    [k \in DOMAIN store \cup {key} |->
        IF k = key THEN [value |-> value, expire_at |-> t + seconds]
        ELSE store[k]]

\* a GET that still answers after the time to live
RedisGet_no_ttl(store, key, t) ==
    IF key \in DOMAIN store THEN store[key].value ELSE None

RedisGet(store, key, t) ==
    IF key \in DOMAIN store /\ t < store[key].expire_at
    THEN store[key].value ELSE None

\* one cache key for every proof
CacheKey_shared(proof_id) == <<"zkproof", <<"zkp", 0, "latest">>>>

CacheKey(proof_id) == <<"zkproof", proof_id>>

\* 3600 s, 7200 s and 14400 s, in hours
expiry_times == [onyx |-> 1, obsidian |-> 2, void |-> 4]

_cache_proof(store, proof_id, response, privacy_tier, t, redis_up) ==
    LET cache_key == CacheKey(proof_id)
        cache_data == AsJson(response)
        expiry == Get(expiry_times, privacy_tier, 1)
    IN  IF redis_up
        THEN Ok(RedisSetex(store, cache_key, expiry, JsonDumps(cache_data), t))
        ELSE Raise("ConnectionError")

\* a cache read that does not honour the time to live
_get_cached_proof_ignores_ttl(store, proof_id, t, redis_up) ==
    LET cache_key == CacheKey(proof_id)
    IN  IF ~redis_up THEN Raise("ConnectionError")
        ELSE IF cache_key \in DOMAIN store
             THEN Ok(JsonLoads(store[cache_key].value))
        ELSE Ok(None)

_get_cached_proof(store, proof_id, t, redis_up) ==
    LET cache_key == CacheKey(proof_id)
        cached_data == RedisGet(store, cache_key, t)
    IN  IF ~redis_up THEN Raise("ConnectionError")
        ELSE IF cached_data # None THEN Ok(JsonLoads(cached_data))
        ELSE Ok(None)

\* the handler of line 178 with the status left as it would have been
Rejected_status_pending(proof_id, request, e) ==
    [proof_id |-> proof_id,
     status |-> "pending",
     proof_data |-> [error |-> Str(e)],
     verification_hash |-> "",
     confidence_score |-> F_0_0,
     expires_at |-> request.expires_at,
     emergency_recovery_hash |-> None]

Rejected(proof_id, request, e) ==
    [proof_id |-> proof_id,
     status |-> "rejected",
     proof_data |-> [error |-> Str(e)],
     verification_hash |-> "",
     confidence_score |-> F_0_0,
     expires_at |-> request.expires_at,
     emergency_recovery_hash |-> None]

\* the dispatch on request.proof_type, lines 134-143
ProofDataFor(request, crypto_params, seed) ==
    CASE request.proof_type = "portfolio_ownership" ->
            _prove_portfolio_ownership(request, crypto_params, seed)
      [] request.proof_type = "net_worth_threshold" ->
            _prove_net_worth_threshold(request, crypto_params, seed)
      [] request.proof_type = "identity_verification" ->
            _prove_identity_verification(request, crypto_params, seed)
      [] request.proof_type = "compliance_status" ->
            _prove_compliance_status(request, crypto_params, seed)
      [] OTHER ->
            SelfCall(CryptographicEngineMethods, "_generate_generic_proof")

\* the call returns [exc, response, store]: what it raised, what it returned
\* and the keyspace it leaves
generate_zk_proof(request, proof_id, seed, t, store, redis_up) ==
    LET crypto_params == tier_crypto_params[request.privacy_tier]
        reject(e) == [exc |-> NoExc,
                      response |-> Rejected(proof_id, request, e),
                      store |-> store]
        proved == ProofDataFor(request, crypto_params, seed)
    IN  IF proved.exc # NoExc THEN reject(proved.exc)
        ELSE
        LET proof_data == proved.val
            verification_hash ==
                _generate_verification_hash(proof_data, crypto_params)
            confidence_score ==
                _calculate_confidence_score(request, proof_data, crypto_params)
            recovery ==
                IF request.privacy_tier \in {"obsidian", "void"}
                THEN _generate_emergency_recovery(request, proof_data, t)
                ELSE Ok(None)
        IN  IF recovery.exc # NoExc THEN reject(recovery.exc)
            ELSE
            LET response ==
                    [proof_id |-> proof_id,
                     status |-> IF FLess(F_0_95, confidence_score)
                                THEN "verified" ELSE "pending",
                     proof_data |-> proof_data,
                     verification_hash |-> verification_hash,
                     confidence_score |-> confidence_score,
                     expires_at |-> request.expires_at,
                     emergency_recovery_hash |-> recovery.val]
                cached == _cache_proof(store, proof_id, response,
                                       request.privacy_tier, t, redis_up)
            IN  IF cached.exc # NoExc THEN reject(cached.exc)
                ELSE [exc |-> NoExc, response |-> response,
                      store |-> cached.val]

\* a verifier that accepts whatever the cache holds, with no expiry check
verify_zk_proof_no_expiry_check(proof_id, verification_challenge, t, store, redis_up) ==
    LET got == _get_cached_proof(store, proof_id, t, redis_up)
    IN  IF got.exc # NoExc THEN <<FALSE, F_0_0>>
        ELSE IF got.val = None THEN <<FALSE, F_0_0>>
        ELSE <<TRUE, got.val.confidence_score>>

\* returns <<is_valid, confidence>>; every exception inside is caught at
\* line 220.  self._verify_proof_validity and
\* self._verify_cryptographic_integrity are not defined by the class, and
\* the cached expires_at is a string, which Python does not order against a
\* datetime.  On success the second component is what
\* _verify_cryptographic_integrity returns (line 217).
verify_zk_proof(proof_id, verification_challenge, t, store, redis_up) ==
    LET got == _get_cached_proof(store, proof_id, t, redis_up)
        failed == <<FALSE, F_0_0>>
    IN  IF got.exc # NoExc THEN failed
        ELSE IF got.val = None THEN failed
        ELSE IF SelfCall(CryptographicEngineMethods,
                         "_verify_proof_validity").exc # NoExc THEN failed
        ELSE IF "datetime" \notin DOMAIN got.val.expires_at THEN failed
        ELSE IF got.val.expires_at.datetime < t THEN failed
        ELSE IF SelfCall(CryptographicEngineMethods,
                         "_verify_cryptographic_integrity").exc # NoExc
             THEN failed
        ELSE <<TRUE, SelfCall(CryptographicEngineMethods,
                              "_verify_cryptographic_integrity").val>>

\* POST /api/v1/anonymous/proof/generate: the endpoint builds the
\* ZKProofRequest without metadata, so the dataclass default None is used.
\* Returns [exc, ret, artifact, store].
api_generate_zk_proof(body, client_id, proof_id, seed, t, store, redis_up) ==
    IF body.proof_type \notin ProofType
    THEN [exc |-> "ValueError", ret |-> None, artifact |-> None, store |-> store]
    ELSE
    LET proof_request == [client_id |-> client_id,
                          proof_type |-> body.proof_type,
                          privacy_tier |-> body.privacy_tier,
                          claim_data |-> body.claim_data,
                          verification_params |-> body.verification_params,
                          expires_at |-> Datetime(t + body.expires_in_hours),
                          metadata |-> None]
        returned(r) ==
            LET proof_response == r.response
            IN  [exc |-> NoExc,
                 ret |-> [proof_id |-> proof_response.proof_id,
                          status |-> proof_response.status,
                          confidence_score |-> proof_response.confidence_score,
                          verification_hash |-> proof_response.verification_hash,
                          expires_at |-> proof_response.expires_at,
                          emergency_recovery_available |->
                              proof_response.emergency_recovery_hash # None,
                          proof_type |-> body.proof_type],
                 artifact |-> proof_response,
                 store |-> r.store]
    IN  CHOOSE out \in {returned(r) :
                          r \in {generate_zk_proof(proof_request, proof_id, seed,
                                                    t, store, redis_up)}} : TRUE

----------------------------------------------------------------------------
(* AnonymousPortfolioManager *)

_get_tier_proof_requirements(privacy_tier) ==
    <<"identity_verification", "compliance_status">>
    \o (IF privacy_tier \in {"obsidian", "void"}
        THEN <<"net_worth_threshold", "portfolio_ownership">> ELSE <<>>)
    \o (IF privacy_tier = "void" THEN <<"risk_assessment">> ELSE <<>>)

\* the key is drawn inside the method and is not kept anywhere.  For void,
\* algorithms.ChaCha20(key) is called without its nonce argument: TypeError
_encrypt_profile(profile_data, privacy_tier, seed) ==
    LET profile_json == JsonDumps(profile_data)
        key == TokenBytes(seed, Str("key"))
        nonce == TokenBytes(seed, Str("nonce"))
    IN  IF privacy_tier = "void"
        THEN Raise("TypeError")
        ELSE Ok([nonce |-> nonce, tag |-> "tag",
                 ciphertext |-> [cipher |-> "AES-256-GCM", key |-> key,
                                 nonce |-> nonce, plaintext |-> profile_json]])

\* returns [exc, ret]; self._cache_identity is not defined by the class
create_anonymous_identity(client_id, privacy_tier, profile_data, emergency_contacts, seed, t) ==
    LET identity_id == [anon |-> privacy_tier, hex |-> TokenBytes(seed, Str("id"))]
        public_key == [rsa_public |-> TokenBytes(seed, Str("rsa")),
                       key_size |-> tier_crypto_params[privacy_tier].key_size]
        encrypted == _encrypt_profile(profile_data, privacy_tier, seed)
        cached == SelfCall(AnonymousPortfolioManagerMethods, "_cache_identity")
    IN  IF encrypted.exc # NoExc THEN [exc |-> encrypted.exc, ret |-> None]
        ELSE IF cached.exc # NoExc THEN [exc |-> cached.exc, ret |-> None]
        ELSE [exc |-> NoExc,
              ret |-> [identity_id |-> identity_id,
                       privacy_tier |-> privacy_tier,
                       encrypted_profile |-> encrypted.val,
                       public_key |-> public_key,
                       proof_requirements |->
                           _get_tier_proof_requirements(privacy_tier),
                       emergency_contacts |-> emergency_contacts,
                       created_at |-> Datetime(t),
                       last_verified |-> Datetime(t)]]

\* returns [exc, ret, store]; its first step is self._get_cached_identity,
\* which the class does not define
verify_anonymous_portfolio(identity_id, portfolio_data, verification_params, store) ==
    LET identity == SelfCall(AnonymousPortfolioManagerMethods,
                             "_get_cached_identity")
    IN  IF identity.exc # NoExc
        THEN [exc |-> identity.exc, ret |-> None, store |-> store]
        ELSE [exc |-> "ValueError", ret |-> None, store |-> store]

\* the helpers progressive_identity_reveal calls on self, in call order
RevealHelpers ==
    <<"_verify_emergency_conditions", "_get_cached_identity",
      "_verify_recovery_hash", "_decrypt_emergency_data",
      "_log_emergency_access">>

\* a reveal that checks nothing and hands the profile out
progressive_identity_reveal_unguarded(identity_id, emergency_recovery_hash, justification, approver_id, log, t) ==
    [exc |-> NoExc,
     ret |-> [identity_id |-> identity_id,
              revealed_fields |-> {"full_identity"},
              data |-> [full_identity |-> "whale_user_001"],
              justification |-> justification,
              approver |-> approver_id,
              timestamp |-> Str(Datetime(t))],
     audit_log |-> log]

\* returns [exc, ret, audit_log].  The data is returned only after all five
\* helpers have run and the record is written only by the last of them, so
\* a helper the class does not define ends the call with AttributeError,
\* nothing revealed and nothing logged.
progressive_identity_reveal(identity_id, emergency_recovery_hash, justification, approver_id, log, t) ==
    IF \E i \in 1..Len(RevealHelpers) :
          SelfCall(AnonymousPortfolioManagerMethods, RevealHelpers[i]).exc # NoExc
    THEN [exc |-> "AttributeError", ret |-> None, audit_log |-> log]
    ELSE LET revealed_data == [decrypted |-> "_decrypt_emergency_data"]
         IN  [exc |-> NoExc,
              ret |-> [identity_id |-> identity_id,
                       revealed_fields |-> DOMAIN revealed_data,
                       data |-> revealed_data,
                       justification |-> justification,
                       approver |-> approver_id,
                       timestamp |-> Str(Datetime(t))],
              audit_log |-> Append(log, [identity_id |-> identity_id,
                                         justification |-> justification,
                                         approver_id |-> approver_id,
                                         revealed_fields |-> DOMAIN revealed_data])]

\* POST /api/v1/anonymous/emergency/reveal
emergency_identity_reveal(request, log, t) ==
    LET approver_id == Get(request.approver_credentials, "approver_id", "")
    IN  IF approver_id = ""
        THEN [exc |-> "HTTP_400_BAD_REQUEST", ret |-> None, audit_log |-> log]
        ELSE LET revealed == progressive_identity_reveal(
                                request.identity_id,
                                request.emergency_recovery_hash,
                                request.justification, approver_id, log, t)
             IN  IF revealed.exc # NoExc THEN revealed
                 ELSE [exc |-> NoExc,
                       ret |-> [revelation_id |-> [emergency |-> t],
                                identity_id |-> revealed.ret.identity_id,
                                revealed_fields |-> revealed.ret.revealed_fields,
                                justification |-> revealed.ret.justification,
                                approver |-> revealed.ret.approver,
                                timestamp |-> revealed.ret.timestamp,
                                data |-> revealed.ret.data],
                       audit_log |-> revealed.audit_log]

----------------------------------------------------------------------------
(* The requests clients make *)

Seeds == {"s1"}

Holding1 == [id |-> "HOLD-001", symbol |-> "RELIANCE", value |-> 2500000]
Holding2 == [symbol |-> "TCS", value |-> 5000000]

Portfolios == {<<Holding1>>, <<Holding1, Holding2>>}

NetWorths == {3000000, 5000000}

\* a declared interval [threshold, max_threshold] and net worths inside and
\* above it
RangeBounds == [threshold |-> 5000000, max_threshold |-> 20000000]
BoundedNetWorths == {7500000, 25000000}

ClaimsOf(proof_type) ==
    CASE proof_type = "portfolio_ownership" ->
            {[claim_data |-> [portfolio |-> [holdings |-> h]],
              verification_params |-> [min_value |-> 5000000]] : h \in Portfolios}
      [] proof_type = "net_worth_threshold" ->
            {[claim_data |-> [net_worth |-> w],
              verification_params |-> [threshold |-> 5000000]] : w \in NetWorths}
            \cup {[claim_data |-> [net_worth |-> w],
                   verification_params |-> RangeBounds] : w \in BoundedNetWorths}
      [] proof_type = "identity_verification" ->
            {[claim_data |-> [identity |-> [documents |-> <<"passport">>]],
              verification_params |-> EmptyDict]}
      [] OTHER ->
            {[claim_data |-> EmptyDict, verification_params |-> EmptyDict]}

Metadatas == {None, [emergency_contacts |-> <<"legal@corp.example">>]}

\* hours from now to expires_at; the endpoint allows 1 to 168, default 24
ExpiresIn == {1, 24}

ZKProofRequests(t) ==
    UNION {{[client_id |-> "client-1",
             proof_type |-> pt,
             privacy_tier |-> tier,
             claim_data |-> c.claim_data,
             verification_params |-> c.verification_params,
             expires_at |-> Datetime(t + d),
             metadata |-> m] :
               tier \in PrivacyTier, d \in ExpiresIn, m \in Metadatas,
               c \in ClaimsOf(pt)} : pt \in ProofType}

\* secrets.token_hex(8): the values the generator may return; a value it has
\* returned does not come again
TokenHexes == {"a1b2c3d4e5f6a7b8"}

ProofId(t, hex) == <<"zkp", t, hex>>

UsedHexes(ids) == {id[3] : id \in ids}

\* a proof id no call has handed out
UnknownProofId == ProofId(0, "0000000000000000")

\* the verifier's challenge is either the artifact's verification hash or
\* something else
Challenges == {"matching", "other"}

\* the verification_parameters a construction routine may report: both flags,
\* or none
VerificationFlags ==
    {EmptyDict}
    \cup {[threshold_met |-> tm, commitment_valid |-> cv] :
             tm \in BOOLEAN, cv \in BOOLEAN}

IdentityIds == {[anon |-> "obsidian", hex |-> "id-1"]}

RecoveryHashes == {"issued-token", "other-token"}

Justifications == {"legal_order", "curiosity"}

ApproverIds == {"compliance_officer", ""}

----------------------------------------------------------------------------
(* The state machine *)

Init ==
    /\ now = 0
    /\ redis = <<>>
    /\ issued = {}
    /\ audit_log = <<>>
    /\ last = [op |-> "none"]

\* an hour passes
Tick ==
    /\ now < MaxTime
    /\ now' = now + 1
    /\ UNCHANGED <<redis, issued, audit_log, last>>

\* Redis removes a key whose time to live has elapsed
RedisExpire ==
    /\ \E key \in DOMAIN redis :
          /\ now >= redis[key].expire_at
          /\ redis' = [k \in DOMAIN redis \ {key} |-> redis[k]]
    /\ UNCHANGED <<now, issued, audit_log, last>>

\* a caller has a proof generated for one of the requests; the id gets one of
\* the token values not yet handed out
GenerateProofOf(requests, hexes) ==
    /\ \E request \in requests, seed \in Seeds, redis_up \in BOOLEAN,
          hex \in hexes \ UsedHexes(issued) :
          LET proof_id == ProofId(now, hex)
          IN  \E r \in {generate_zk_proof(request, proof_id, seed, now, redis,
                                           redis_up)} :
              /\ issued' = issued \cup {proof_id}
              /\ redis' = IF r.exc = NoExc THEN r.store ELSE redis
              /\ last' = [op |-> "generate_zk_proof",
                          request |-> request,
                          redis_up |-> redis_up,
                          exc |-> r.exc,
                          ret |-> IF r.exc = NoExc THEN r.response ELSE None]
    /\ UNCHANGED <<now, audit_log>>

GenerateProof == GenerateProofOf(ZKProofRequests(now), TokenHexes)

\* a client posts to /proof/generate
ApiGenerateProof ==
    /\ \E pt \in ProofType \cup {"balance_proof"}, tier \in PrivacyTier,
          d \in ExpiresIn, seed \in Seeds, redis_up \in BOOLEAN,
          hex \in TokenHexes \ UsedHexes(issued) :
          \E c \in ClaimsOf(pt) :
          LET body == [proof_type |-> pt,
                       privacy_tier |-> tier,
                       claim_data |-> c.claim_data,
                       verification_params |-> c.verification_params,
                       expires_in_hours |-> d]
              proof_id == ProofId(now, hex)
          IN  \E r \in {api_generate_zk_proof(body, "client-1", proof_id, seed,
                                               now, redis, redis_up)} :
              /\ issued' = IF r.exc = NoExc THEN issued \cup {proof_id}
                           ELSE issued
              /\ redis' = r.store
              /\ last' = [op |-> "api_generate_zk_proof",
                          body |-> body,
                          redis_up |-> redis_up,
                          exc |-> r.exc,
                          ret |-> r.ret,
                          artifact |-> r.artifact]
    /\ UNCHANGED <<now, audit_log>>

\* _calculate_confidence_score applied to a request of some tier and to
\* proof data with any verification flags, present or not
ScoreProof ==
    /\ \E tier \in PrivacyTier, vp \in VerificationFlags :
          LET request == [privacy_tier |-> tier]
              proof_data == [verification_parameters |-> vp]
          IN  last' = [op |-> "_calculate_confidence_score",
                       request |-> request,
                       proof_data |-> proof_data,
                       ret |-> _calculate_confidence_score(
                                  request, proof_data,
                                  tier_crypto_params[tier])]
    /\ UNCHANGED <<now, redis, issued, audit_log>>

VerifyProof ==
    /\ \E proof_id \in issued \cup {UnknownProofId}, ch \in Challenges,
          redis_up \in BOOLEAN :
          last' = [op |-> "verify_zk_proof",
                   proof_id |-> proof_id,
                   challenge |-> ch,
                   redis_up |-> redis_up,
                   at |-> now,
                   entry |-> IF CacheKey(proof_id) \in DOMAIN redis
                             THEN redis[CacheKey(proof_id)] ELSE None,
                   cached |-> _get_cached_proof(redis, proof_id, now, redis_up),
                   ret |-> verify_zk_proof(proof_id, ch, now, redis, redis_up)]
    /\ UNCHANGED <<now, redis, issued, audit_log>>

CreateIdentity ==
    /\ \E tier \in PrivacyTier, seed \in Seeds :
          LET r == create_anonymous_identity(
                      "client-1", tier,
                      [user_id |-> "whale_user_001", net_worth |-> 75000000],
                      <<"legal@corp.example">>, seed, now)
          IN  last' = [op |-> "create_anonymous_identity",
                       client_id |-> "client-1",
                       privacy_tier |-> tier,
                       profile_data |-> [user_id |-> "whale_user_001",
                                         net_worth |-> 75000000],
                       emergency_contacts |-> <<"legal@corp.example">>,
                       exc |-> r.exc, ret |-> r.ret]
    /\ UNCHANGED <<now, redis, issued, audit_log>>

VerifyPortfolio ==
    /\ \E identity_id \in IdentityIds, h \in Portfolios :
          LET r == verify_anonymous_portfolio(
                      identity_id, [holdings |-> h], [min_value |-> 5000000],
                      redis)
          IN  /\ redis' = r.store
              /\ last' = [op |-> "verify_anonymous_portfolio",
                          identity_id |-> identity_id,
                          exc |-> r.exc, ret |-> r.ret]
    /\ UNCHANGED <<now, issued, audit_log>>

Reveal ==
    /\ \E identity_id \in IdentityIds, h \in RecoveryHashes,
          j \in Justifications, approver_id \in ApproverIds \ {""} :
          LET r == progressive_identity_reveal(identity_id, h, j, approver_id,
                                               audit_log, now)
          IN  /\ audit_log' = r.audit_log
              /\ last' = [op |-> "progressive_identity_reveal",
                          identity_id |-> identity_id,
                          emergency_recovery_hash |-> h,
                          justification |-> j,
                          approver_id |-> approver_id,
                          exc |-> r.exc, ret |-> r.ret]
    /\ UNCHANGED <<now, redis, issued>>

ApiReveal ==
    /\ \E identity_id \in IdentityIds, h \in RecoveryHashes,
          j \in Justifications, approver_id \in ApproverIds :
          LET request == [identity_id |-> identity_id,
                          emergency_recovery_hash |-> h,
                          justification |-> j,
                          approver_credentials |->
                              IF approver_id = "" THEN EmptyDict
                              ELSE [approver_id |-> approver_id]]
              r == emergency_identity_reveal(request, audit_log, now)
          IN  /\ audit_log' = r.audit_log
              /\ last' = [op |-> "emergency_identity_reveal",
                          identity_id |-> identity_id,
                          emergency_recovery_hash |-> h,
                          justification |-> j,
                          approver_id |-> approver_id,
                          exc |-> r.exc, ret |-> r.ret]
    /\ UNCHANGED <<now, redis, issued>>

Next ==
    \/ Tick
    \/ RedisExpire
    \/ GenerateProof
    \/ ApiGenerateProof
    \/ ScoreProof
    \/ VerifyProof
    \/ CreateIdentity
    \/ VerifyPortfolio
    \/ Reveal
    \/ ApiReveal

Spec == Init /\ [][Next]_vars

\* The proof store under several proofs: two token values, and net-worth
\* requests of every tier, met and unmet, that carry metadata and expire in
\* an hour
StoreTokenHexes == {"a1b2c3d4e5f6a7b8", "0f1e2d3c4b5a6978"}

StoreRequests(t) ==
    {request \in ZKProofRequests(t) :
        /\ request.proof_type = "net_worth_threshold"
        /\ request.claim_data.net_worth \in {3000000, 25000000}
        /\ request.metadata # None
        /\ request.expires_at = Datetime(t + 1)}

StoreGenerateProof == GenerateProofOf(StoreRequests(now), StoreTokenHexes)

StoreNext ==
    \/ Tick
    \/ RedisExpire
    \/ StoreGenerateProof

SpecStore == Init /\ [][StoreNext]_vars

----------------------------------------------------------------------------
(* Claims *)

\* a step of the last generate_zk_proof call failed: the construction routine
\* of the type calls a method the class lacks, the recovery token was to be
\* derived from a request without metadata, or Redis refused the write
GenerateStepFailed ==
    \/ last.request.proof_type \notin {"portfolio_ownership", "net_worth_threshold"}
    \/ (last.request.privacy_tier \in {"obsidian", "void"}
        /\ last.request.metadata = None)
    \/ ~last.redis_up

\* C1: generate_zk_proof never raises on an internal error: whenever a step
\* of construction, token derivation or caching fails, the call returns an
\* artifact with status rejected, confidence_score 0.0 and an error note in
\* proof_data.error.
C1_RejectedNotRaised ==
    last.op = "generate_zk_proof" =>
        /\ last.exc = NoExc
        /\ GenerateStepFailed =>
              /\ last.ret.status = "rejected"
              /\ last.ret.confidence_score = F_0_0
              /\ "error" \in DOMAIN last.ret.proof_data

\* C1 witness: a net-worth proof whose construction succeeded and whose cache
\* write failed came back rejected
C1_Witness ==
    /\ last.op = "generate_zk_proof"
    /\ last.request.proof_type = "net_worth_threshold"
    /\ last.request.privacy_tier = "onyx"
    /\ ~last.redis_up
    /\ last.exc = NoExc
    /\ last.ret.status = "rejected"

\* the last call verified a proof that the store held, unexpired by both
\* clocks, with the matching challenge
FreshVerify ==
    /\ last.op = "verify_zk_proof"
    /\ last.redis_up
    /\ last.challenge = "matching"
    /\ last.entry # None
    /\ last.at < last.entry.expire_at
    /\ last.at <= JsonLoads(last.entry.value).expires_at.str.datetime

\* C2: a non-rejected proof verified with the matching challenge before the
\* store TTL and expires_at have passed yields (true, confidence >= 0.95).
C2_RoundTrip ==
    (FreshVerify /\ JsonLoads(last.entry.value).status = "verified") =>
        /\ last.ret[1] = TRUE
        /\ FLeq(F_0_95, last.ret[2])

\* the expires_at of the artifact the store held when the last verify ran
EntryExpiresAt == JsonLoads(last.entry.value).expires_at.str.datetime

\* C3: a verify_zk_proof call made later than the artifact's expires_at
\* returns (false, 0.0), whatever the challenge and although the store entry
\* is still there.
C3_ExpiredIsInvalid ==
    (/\ last.op = "verify_zk_proof"
     /\ last.entry # None
     /\ EntryExpiresAt < last.at) =>
        last.ret = <<FALSE, F_0_0>>

\* C3 witness: the entry was present and within its TTL, expires_at had
\* passed, the challenge matched, and the call returned (false, 0.0)
C3_Witness ==
    /\ last.op = "verify_zk_proof"
    /\ last.redis_up
    /\ last.challenge = "matching"
    /\ last.entry # None
    /\ last.at < last.entry.expire_at
    /\ EntryExpiresAt < last.at
    /\ last.ret = <<FALSE, F_0_0>>

\* C4: a proof id that was never stored, or whose store TTL has elapsed, is
\* absent: _get_cached_proof returns None and verify_zk_proof returns
\* (false, 0.0).
C4_AbsentIsInvalid ==
    (/\ last.op = "verify_zk_proof"
     /\ (last.entry = None \/ last.at >= last.entry.expire_at)) =>
        /\ last.ret = <<FALSE, F_0_0>>
        /\ last.redis_up => last.cached = Ok(None)

\* C4 witness: the TTL had elapsed while Redis still held the key
C4_Witness ==
    /\ last.op = "verify_zk_proof"
    /\ last.redis_up
    /\ last.entry # None
    /\ last.at >= last.entry.expire_at
    /\ last.cached = Ok(None)
    /\ last.ret = <<FALSE, F_0_0>>

\* C6: a reveal request that lacks a recognised trigger, an existing
\* identity, the matching recovery token or an approver is rejected with an
\* error, releases no field, appends no audit record and changes no state.
\* No identity is ever registered, so this is every request, through the
\* manager and through the endpoint.
C6_RejectedRevealReleasesNothing ==
    [][(Reveal \/ ApiReveal) =>
          /\ last'.exc # NoExc
          /\ last'.ret = None
          /\ audit_log' = audit_log
          /\ redis' = redis]_vars

\* C6 witness: a request with an unrecognised justification and the wrong
\* token was made through the manager and was rejected
C6_Witness ==
    /\ last.op = "progressive_identity_reveal"
    /\ last.justification = "curiosity"
    /\ last.emergency_recovery_hash = "other-token"
    /\ last.approver_id = "compliance_officer"
    /\ last.exc # NoExc
    /\ last.ret = None
    /\ audit_log = <<>>

\* What the claim says in clear: identifiers and symbols of the holdings and
\* the content of identity documents, and the amounts (each holding's value,
\* their total, the net worth)
ClaimStrings(claim_data) ==
    LET holdings == Get(Get(claim_data, "portfolio", EmptyDict), "holdings", <<>>)
        documents == Get(Get(claim_data, "identity", EmptyDict), "documents", <<>>)
    IN  ({Get(holdings[i], "id", "unknown") : i \in DOMAIN holdings}
            \cup {Get(holdings[i], "symbol", "unknown") : i \in DOMAIN holdings}
            \cup {documents[i] : i \in DOMAIN documents})
        \ {"unknown"}

ClaimAmounts(claim_data) ==
    LET holdings == Get(Get(claim_data, "portfolio", EmptyDict), "holdings", <<>>)
    IN  {Get(holdings[i], "value", 0) : i \in DOMAIN holdings}
        \cup (IF holdings # <<>> THEN {SumValues(holdings)} ELSE {})
        \cup (IF "net_worth" \in DOMAIN claim_data
              THEN {claim_data.net_worth} ELSE {})

\* What json.dumps(proof_data) shows in clear.  Digests, HMACs and random
\* challenges show nothing of their input; every other field of the proof
\* data of the ownership and net-worth routines is a string or a number
ProofDataStrings(proof_data) ==
    LET ownership_proofs == Get(proof_data, "ownership_proofs", <<>>)
        verification_params == Get(proof_data, "verification_parameters", EmptyDict)
    IN  {proof_data.type}
        \cup {ownership_proofs[i].holding_id : i \in DOMAIN ownership_proofs}
        \cup (IF "tier_qualified" \in DOMAIN verification_params
              THEN {verification_params.tier_qualified} ELSE {})

ProofDataNumbers(proof_data) ==
    LET range_proof == proof_data.range_proof
        verification_params == Get(proof_data, "verification_parameters", EmptyDict)
    IN  {range_proof.rounds}
        \cup {range_proof.proofs[j].round : j \in DOMAIN range_proof.proofs}
        \cup (IF "holdings_count" \in DOMAIN verification_params
              THEN {verification_params.holdings_count} ELSE {})

\* C12: no leakage: the proof_data of a non-rejected artifact shows no value
\* taken literally from the claim: no holding identifier or symbol, no
\* amount, no net worth, no document content.
C12_NoLeakage ==
    (/\ last.op = "generate_zk_proof"
     /\ last.ret.status # "rejected") =>
        /\ ProofDataStrings(last.ret.proof_data)
             \cap ClaimStrings(last.request.claim_data) = {}
        /\ ProofDataNumbers(last.ret.proof_data)
             \cap ClaimAmounts(last.request.claim_data) = {}

\* the private value of a request and the lower bound it declares
PrivateValue(request) ==
    IF request.proof_type = "portfolio_ownership"
    THEN SumValues(Get(Get(request.claim_data, "portfolio", EmptyDict),
                       "holdings", <<>>))
    ELSE Get(request.claim_data, "net_worth", 0)

LowerBound(request) ==
    IF request.proof_type = "portfolio_ownership"
    THEN Get(request.verification_params, "min_value", 0)
    ELSE Get(request.verification_params, "threshold", 0)

C14_RangeIsInterval ==
    (/\ last.op = "generate_zk_proof"
     /\ last.ret.status # "rejected"
     /\ "max_threshold" \in DOMAIN last.request.verification_params) =>
        last.ret.proof_data.range_proof.threshold_satisfied
          = (/\ PrivateValue(last.request) >= LowerBound(last.request)
             /\ PrivateValue(last.request)
                  <= last.request.verification_params.max_threshold)

\* Onyx < Obsidian < Void
TierRank == [onyx |-> 1, obsidian |-> 2, void |-> 3]

\* the score of the request that differs from this one only in its tier
ScoreInTier(request, proof_data, tier) ==
    _calculate_confidence_score([request EXCEPT !.privacy_tier = tier],
                                proof_data, tier_crypto_params[tier])

\* the score the last call computed, and the request and proof data it
\* computed it from
Scored ==
    \/ last.op = "_calculate_confidence_score"
    \/ (last.op = "generate_zk_proof" /\ last.ret.status # "rejected")

LastScore ==
    IF last.op = "generate_zk_proof" THEN last.ret.confidence_score ELSE last.ret

LastProofData ==
    IF last.op = "generate_zk_proof" THEN last.ret.proof_data ELSE last.proof_data

\* C15: tier monotonicity: with the same claim and the same threshold_met
\* and commitment_valid flags, a request of a higher tier never scores below
\* the request of a lower tier: Void >= Obsidian >= Onyx.
C15_TierMonotone ==
    Scored =>
        \A higher \in PrivacyTier :
            TierRank[last.request.privacy_tier] <= TierRank[higher] =>
                FLeq(LastScore, ScoreInTier(last.request, LastProofData, higher))

\* C15 witness: an Onyx score with both flags set, strictly below the
\* Obsidian score for the same flags, itself equal to the Void score
C15_Witness ==
    /\ last.op = "_calculate_confidence_score"
    /\ last.request.privacy_tier = "onyx"
    /\ last.proof_data.verification_parameters
         = [threshold_met |-> TRUE, commitment_valid |-> TRUE]
    /\ FLess(last.ret, ScoreInTier(last.request, last.proof_data, "obsidian"))
    /\ ScoreInTier(last.request, last.proof_data, "obsidian")
         = ScoreInTier(last.request, last.proof_data, "void")

\* 0 <= x <= 0.99
InScoreRange(x) == FLeq(F_0_0, x) /\ FLeq(x, F_0_99)

\* the artifacts the store holds
StoredArtifacts == {JsonLoads(redis[k].value) : k \in DOMAIN redis}

\* C16: every artifact returned or stored has confidence_score in [0, 0.99]:
\* the computed score is capped at 0.99, and a rejected artifact has exactly
\* 0.
C16_ScoreInRange ==
    /\ last.op = "generate_zk_proof" =>
          /\ InScoreRange(last.ret.confidence_score)
          /\ last.ret.status = "rejected" => last.ret.confidence_score = F_0_0
    /\ (last.op = "api_generate_zk_proof" /\ last.exc = NoExc) =>
          /\ InScoreRange(last.ret.confidence_score)
          /\ last.ret.status = "rejected" => last.ret.confidence_score = F_0_0
    /\ last.op = "_calculate_confidence_score" => InScoreRange(last.ret)
    /\ \A artifact \in StoredArtifacts : InScoreRange(artifact.confidence_score)

\* C16 witness: a Void artifact with both checks passed, whose bonuses add up
\* to more than 0.99, was returned and stored with exactly 0.99
C16_Witness ==
    /\ last.op = "generate_zk_proof"
    /\ last.request.privacy_tier = "void"
    /\ last.ret.status = "verified"
    /\ last.ret.proof_data.verification_parameters.threshold_met
    /\ last.ret.proof_data.verification_parameters.commitment_valid
    /\ last.ret.confidence_score = F_0_99
    /\ \E artifact \in StoredArtifacts :
          /\ artifact.proof_id = last.ret.proof_id
          /\ artifact.confidence_score = F_0_99

\* the artifact the last generation call produced, through the engine or
\* through the endpoint, and the tier it was asked for
Generated ==
    \/ last.op = "generate_zk_proof"
    \/ (last.op = "api_generate_zk_proof" /\ last.exc = NoExc)

LastArtifact ==
    IF last.op = "generate_zk_proof" THEN last.ret ELSE last.artifact

LastTier ==
    IF last.op = "generate_zk_proof" THEN last.request.privacy_tier
    ELSE last.body.privacy_tier

\* C17: the emergency-recovery token is generated only for Obsidian and
\* Void: an Onyx artifact never carries a token, and every non-rejected
\* Obsidian or Void artifact carries one; the same holds for what the store
\* keeps, where the number of rounds tells the tier.
C17_TokenOnlyAboveOnyx ==
    /\ Generated =>
          /\ LastTier = "onyx" => LastArtifact.emergency_recovery_hash = None
          /\ (LastTier \in {"obsidian", "void"}
              /\ LastArtifact.status # "rejected") =>
                 LastArtifact.emergency_recovery_hash # None
    /\ \A artifact \in StoredArtifacts :
          (artifact.emergency_recovery_hash = None)
            = (artifact.proof_data.range_proof.rounds
                 = tier_crypto_params.onyx.proof_rounds)

\* C17 witness: a non-rejected Obsidian artifact carrying a token
C17_Witness ==
    /\ last.op = "generate_zk_proof"
    /\ last.request.privacy_tier = "obsidian"
    /\ last.ret.status # "rejected"
    /\ last.ret.emergency_recovery_hash # None
    /\ \E artifact \in StoredArtifacts :
          artifact.emergency_recovery_hash = last.ret.emergency_recovery_hash

\* the request of the last generation call, as the engine received it
LastRequest ==
    IF last.op = "generate_zk_proof" THEN last.request
    ELSE [client_id |-> "client-1",
          proof_type |-> last.body.proof_type,
          privacy_tier |-> last.body.privacy_tier,
          claim_data |-> last.body.claim_data,
          verification_params |-> last.body.verification_params,
          expires_at |-> last.artifact.expires_at,
          metadata |-> None]

\* the status generate_zk_proof gives the same request carrying metadata = {}
StatusWithEmptyMetadata(request, proof_id, redis_up) ==
    generate_zk_proof([request EXCEPT !.metadata = EmptyDict], proof_id,
                      "s1", 0, <<>>, redis_up).response.status

\* C18: metadata is optional: a request without metadata, as the
\* /proof/generate endpoint builds it, gets the same status as the same
\* request with empty metadata.
C18_MetadataOptional ==
    (Generated /\ LastRequest.metadata = None) =>
        LastArtifact.status
          = StatusWithEmptyMetadata(LastRequest, LastArtifact.proof_id,
                                    last.redis_up)

\* the claim types the dispatch is to cover
DispatchedTypes ==
    {"portfolio_ownership", "net_worth_threshold", "identity_verification",
     "compliance_status", "risk_assessment"}

\* nothing but the construction routine can fail the last generation call:
\* Redis took the write, and a tier that derives a token had metadata
NothingElseFails ==
    /\ last.redis_up
    /\ LastTier \in {"obsidian", "void"} => LastRequest.metadata # None

\* C19: dispatch covers the closed set of claim types: for each of the five
\* types, generating a proof for a well-formed claim returns a non-rejected
\* artifact whose proof_data is tagged with the requested type.
C19_DispatchCoversTypes ==
    (/\ Generated
     /\ NothingElseFails
     /\ LastRequest.proof_type \in DispatchedTypes) =>
        /\ LastArtifact.status # "rejected"
        /\ LastArtifact.proof_data.type = LastRequest.proof_type

\* 0.8 + 0.05 + 0.05 + 0.05 as the code adds it: base, Onyx bonus, threshold
\* bonus, commitment bonus
OnyxFullScore == FAdd(FAdd(FAdd(F_0_8, F_0_05), F_0_05), F_0_05)

\* C20: an artifact whose threshold is met and whose commitment is valid has
\* status verified and confidence_score >= 0.95 in every tier; in Onyx the
\* score is exactly base + tier bonus + both check bonuses.
C20_MetAndValidIsVerified ==
    (/\ Generated
     /\ LastArtifact.status # "rejected"
     /\ LastArtifact.proof_data.verification_parameters.threshold_met
     /\ LastArtifact.proof_data.verification_parameters.commitment_valid) =>
        /\ LastArtifact.status = "verified"
        /\ FLeq(F_0_95, LastArtifact.confidence_score)
        /\ LastTier = "onyx" => LastArtifact.confidence_score = OnyxFullScore

\* C20 witness: an Onyx net-worth proof with the threshold met, returned
\* through the endpoint as verified with the full Onyx score
C20_Witness ==
    /\ last.op = "api_generate_zk_proof"
    /\ last.body.privacy_tier = "onyx"
    /\ last.body.proof_type = "net_worth_threshold"
    /\ last.ret.status = "verified"
    /\ last.artifact.proof_data.verification_parameters.threshold_met
    /\ last.artifact.proof_data.verification_parameters.commitment_valid
    /\ last.ret.status = "verified"
    /\ last.ret.confidence_score = OnyxFullScore
    /\ FLeq(F_0_95, last.ret.confidence_score)

\* the proof set each tier requires
RequiredProofs ==
    [onyx |-> {"identity_verification", "compliance_status"},
     obsidian |-> {"identity_verification", "compliance_status",
                   "net_worth_threshold", "portfolio_ownership"},
     void |-> {"identity_verification", "compliance_status",
               "net_worth_threshold", "portfolio_ownership", "risk_assessment"}]

\* C21: create_anonymous_identity succeeds for each of the three tiers: it
\* returns an identity of the requested tier whose identity_id is
\* anon_<tier>_<random> and whose proof requirements are the tier's required
\* proof set (the record being persisted for later lookups).
C21_CreateSucceeds ==
    last.op = "create_anonymous_identity" =>
        /\ last.exc = NoExc
        /\ last.ret.privacy_tier = last.privacy_tier
        /\ last.ret.identity_id.anon = last.privacy_tier
        /\ {last.ret.proof_requirements[i] :
              i \in DOMAIN last.ret.proof_requirements}
             = RequiredProofs[last.privacy_tier]

\* C22: verify_anonymous_portfolio on an identity_id that is not registered
\* fails with the not-found error ("Anonymous identity not found", a
\* ValueError) and has no effect: no proof id is issued, and the proof
\* store and the audit trail are unchanged.
C22_UnknownIdentityNotFound ==
    [][VerifyPortfolio =>
          /\ last'.exc = "ValueError"
          /\ redis' = redis
          /\ issued' = issued
          /\ audit_log' = audit_log]_vars

\* AES-GCM or ChaCha20 decryption of what _encrypt_profile returns: the
\* plaintext comes back only under the key the ciphertext was made with
Decrypt(encrypted_profile, key) ==
    IF encrypted_profile.ciphertext.key = key
    THEN Ok(encrypted_profile.ciphertext.plaintext)
    ELSE Raise("InvalidTag")

\* what the store holds besides proofs: the identity records
IdentityRecords(store) ==
    {store[k].value : k \in {k \in DOMAIN store : k[1] # "zkproof"}}

\* the key material an AnonymousIdentity record carries
KeysKept(identity) == {identity.public_key}

\* C23: disclosure is recoverable under authorization: once
\* create_anonymous_identity has been given a profile, the registry holds a
\* record of the identity whose encrypted profile a reveal can decrypt back
\* to that profile, unchanged, with key material the service kept.
C23_ProfileRecoverable ==
    last.op = "create_anonymous_identity" =>
        \E identity \in IdentityRecords(redis) :
            \E key \in KeysKept(identity) :
                Decrypt(identity.encrypted_profile, key)
                  = Ok(JsonDumps(last.profile_data))

\* the real principal behind the calls clients make: the client id, the
\* user id of the profile and the emergency contacts
PrincipalStrings == {"client-1", "whale_user_001", "legal@corp.example"}

\* what a recovery token shows in clear: nothing when it is a digest,
\* else the client id and the contacts of the data it encodes
TokenStrings(token) ==
    IF token = None THEN {}
    ELSE IF "sha256" \in DOMAIN token.b64 THEN {}
    ELSE {token.b64.json.client_id}
         \cup {token.b64.json.emergency_contacts[i] :
                 i \in DOMAIN token.b64.json.emergency_contacts}

\* what an artifact shows in clear outside its digests
ArtifactStrings(artifact) ==
    {artifact.proof_id[3], artifact.status}
    \cup (IF artifact.status = "rejected" THEN {artifact.proof_data.error.str}
          ELSE ProofDataStrings(artifact.proof_data))
    \cup TokenStrings(artifact.emergency_recovery_hash)

\* what an identity record shows in clear
IdentityStrings(identity) ==
    {identity.emergency_contacts[i] : i \in DOMAIN identity.emergency_contacts}

\* what the answer of /proof/generate shows in clear
ApiProofStrings(ret) == {ret.proof_id[3], ret.status, ret.proof_type}

C27_UnmetIsPending ==
    (/\ Generated
     /\ LastArtifact.status # "rejected"
     /\ ~LastArtifact.proof_data.verification_parameters.threshold_met) =>
        LastArtifact.status = "pending"

\* the fields of a ZKProofResponse
ZKProofResponseFields ==
    {"proof_id", "status", "proof_data", "verification_hash",
     "confidence_score", "expires_at", "emergency_recovery_hash"}

\* every store entry is a complete artifact, verified or pending, kept under
\* the key of its own proof id
StoreEntriesWellFormed ==
    \A k \in DOMAIN redis :
        LET artifact == JsonLoads(redis[k].value)
        IN  /\ DOMAIN artifact = ZKProofResponseFields
            /\ artifact.status \in {"verified", "pending"}
            /\ k = CacheKey(artifact.proof_id)

\* a generate_zk_proof call that returns a non-rejected artifact has written
\* exactly that artifact (as JSON) under its proof id; one that returns a
\* rejected artifact has written nothing
ReturnedIsStored ==
    (issued' # issued /\ last'.op = "generate_zk_proof") =>
        IF last'.ret.status = "rejected"
        THEN redis' = redis
        ELSE /\ CacheKey(last'.ret.proof_id) \in DOMAIN redis'
             /\ redis'[CacheKey(last'.ret.proof_id)].value
                  = JsonDumps(AsJson(last'.ret))

\* an entry that stays in the store keeps its content
EntriesKeepContent ==
    \A k \in DOMAIN redis \cap DOMAIN redis' : redis'[k] = redis[k]

\* C28: the proof store matches what callers were given: every entry is a
\* complete artifact with status verified or pending (a rejected artifact is
\* never stored), every non-rejected artifact generate_zk_proof returns has
\* been written under its proof_id when the call returns, and a stored entry
\* is never overwritten with different content.
C28_StoreMatchesReturned ==
    /\ []StoreEntriesWellFormed
    /\ [][ReturnedIsStored /\ EntriesKeepContent]_vars

\* C28 witness: the store holds two different artifacts, the second of them
\* the pending one the last call returned, after an earlier verified one
C28_Witness ==
    /\ Cardinality(DOMAIN redis) = 2
    /\ last.op = "generate_zk_proof"
    /\ last.ret.status = "pending"
    /\ redis[CacheKey(last.ret.proof_id)].value = JsonDumps(AsJson(last.ret))
    /\ \E k \in DOMAIN redis : JsonLoads(redis[k].value).status = "verified"

\* the tier an artifact was generated for, told by its number of rounds
TierOfArtifact(artifact) ==
    CHOOSE tier \in PrivacyTier :
        tier_crypto_params[tier].proof_rounds
          = artifact.proof_data.range_proof.rounds

\* C29: a proof's verifiable lifetime is the minimum of its tier's store TTL
\* (Onyx 1 h < Obsidian 2 h < Void 4 h, counted from generation) and its
\* expires_at: verify_zk_proof returns true only while the TTL has not
\* elapsed and now <= expires_at, and once the TTL has elapsed the proof
\* reads as absent and verifies false, however far ahead expires_at is.
C29_LifetimeIsMinOfTtlAndExpiry ==
    /\ expiry_times.onyx < expiry_times.obsidian
    /\ expiry_times.obsidian < expiry_times.void
    /\ (last.op = "verify_zk_proof" /\ last.entry # None) =>
          /\ last.entry.expire_at
               = last.proof_id[2]
                   + expiry_times[TierOfArtifact(JsonLoads(last.entry.value))]
          /\ last.ret[1] =>
                (last.at < last.entry.expire_at /\ last.at <= EntryExpiresAt)
          /\ last.at >= last.entry.expire_at =>
                /\ last.ret = <<FALSE, F_0_0>>
                /\ last.redis_up => last.cached = Ok(None)

\* C29 witness: an Onyx proof issued with expires_at 24 h ahead was verified
\* with the matching challenge after its 1 h TTL and long before expires_at,
\* and did not verify
C29_Witness ==
    /\ last.op = "verify_zk_proof"
    /\ last.redis_up
    /\ last.challenge = "matching"
    /\ last.entry # None
    /\ TierOfArtifact(JsonLoads(last.entry.value)) = "onyx"
    /\ EntryExpiresAt = last.proof_id[2] + 24
    /\ last.at >= last.entry.expire_at
    /\ last.at < EntryExpiresAt
    /\ last.cached = Ok(None)
    /\ last.ret = <<FALSE, F_0_0>>

====
